---------------------------- MODULE Spec2Model ----------------------------
(***************************************************************************)
(* Model of the screener scraping service: src/app.py                      *)
(* (RobustScreenerScraper and its three Flask routes) and src/second.py    *)
(* (Screener / Company and the same routes).                               *)
(*                                                                         *)
(* Texts are sequences of one-character strings, so that trimming and the  *)
(* character-class substitution of _clean_cell_value are computed          *)
(* character by character.  A Python dict is a function whose domain is    *)
(* its key set.  A call that may raise returns [raised, value].            *)
(***************************************************************************)
EXTENDS Integers, Sequences, FiniteSets, TLC

(***************************************************************************)
(* Bounds of the model.                                                    *)
(***************************************************************************)
MaxLen == 3
MaxCols == 2
MaxRows == 2
NReq == 2
MaxCand == 1
MaxRetryArg == 3
MaxFailures == 3

(***************************************************************************)
(* Characters and texts.                                                   *)
(***************************************************************************)
Digits == {"1", "2"}
Whitespace == {" "}
Chars == Digits \cup Whitespace \cup {",", ".", "-", "N", "/"}

SeqsUpTo(S, n) == UNION {[1..k -> S] : k \in 0..n}

Texts == SeqsUpTo(Chars, MaxLen)

MinOf(S) == CHOOSE m \in S : \A k \in S : m <= k
MaxOf(S) == CHOOSE m \in S : \A k \in S : m >= k

\* str.strip() and the trimming of get_text(strip=True) on a single text node
Strip(s) ==
    LET keep == {i \in 1..Len(s) : s[i] \notin Whitespace}
    IN  IF keep = {} THEN <<>> ELSE SubSeq(s, MinOf(keep), MaxOf(keep))

\* value.replace(',', '')
RemoveCommas(s) == SelectSeq(s, LAMBDA c : c # ",")

\* the class [\d.-] of the pattern r'[^\d.-]'
NumericChar(c) == c \in Digits \cup {".", "-"}

\* re.sub(..., count=1): only the first offending character is removed
SubNonNumericFirstOnly(s) ==
    LET bad == {i \in 1..Len(s) : ~NumericChar(s[i])}
    IN  IF bad = {} THEN s
        ELSE SubSeq(s, 1, MinOf(bad) - 1) \o SubSeq(s, MinOf(bad) + 1, Len(s))

\* re.sub(r'[^\d.-]', '', value)
SubNonNumeric(s) == SelectSeq(s, NumericChar)

\* RobustScreenerScraper._clean_cell_value
clean_cell_value(value) == Strip(SubNonNumeric(RemoveCommas(value)))

(***************************************************************************)
(* Python dicts.                                                           *)
(***************************************************************************)
EmptyDict == <<>>
DictPut(d, k, v) == [x \in (DOMAIN d) \cup {k} |-> IF x = k THEN v ELSE d[x]]
DictLen(d) == Cardinality(DOMAIN d)

\* the literal key 'row_name'
ROW_NAME == <<"r", "o", "w", "_", "n", "a", "m", "e">>

Raised == [raised |-> TRUE, value |-> <<>>]
Returned(v) == [raised |-> FALSE, value |-> v]

(***************************************************************************)
(* Markup.  A table is its thead (the th texts) and its tbody (the rows,   *)
(* each the td texts of one tr); either tag may be missing, and            *)
(* table.find(...) is then None.                                           *)
(***************************************************************************)
ThTexts == {<<>>, <<"M", " ">>, ROW_NAME}
TdTexts == {<<" ", "N">>, <<"1", ",", "2">>}
HeaderLabels == {<<>>, <<"N">>, ROW_NAME}

NoThead == [present |-> FALSE, cells |-> <<>>]
NoTbody == [present |-> FALSE, rows |-> <<>>]
Thead(cells) == [present |-> TRUE, cells |-> cells]
Tbody(rows) == [present |-> TRUE, rows |-> rows]

Theads == {NoThead} \cup {Thead(c) : c \in SeqsUpTo(ThTexts, MaxCols)}
Tbodies == {NoTbody} \cup
           {Tbody(r) : r \in SeqsUpTo(SeqsUpTo(TdTexts, MaxCols), MaxRows)}
Tables == [thead : Theads, tbody : Tbodies]
HeaderSeqs == SeqsUpTo(HeaderLabels, MaxCols)

\* [x.get_text(strip=True) for x in cells]
CellTexts(cells) == [i \in 1..Len(cells) |-> Strip(cells[i])]

\* RobustScreenerScraper._extract_headers
extract_headers(table) ==
    IF ~table.thead.present THEN Raised
    ELSE LET headers == CellTexts(table.thead.cells)
         IN  IF Len(headers) < 2
             THEN IF ~table.tbody.present THEN Raised
                  ELSE IF table.tbody.rows = <<>> THEN Returned(headers)
                  ELSE Returned(CellTexts(table.tbody.rows[1]))
             ELSE Returned(headers)

Min2(a, b) == IF a <= b THEN a ELSE b

RECURSIVE ZipInto(_, _, _, _)
\* for header, cell in zip(headers, cells): row_data[header] = clean(text)
ZipInto(d, headers, cells, i) ==
    IF i > Min2(Len(headers), Len(cells)) THEN d
    ELSE ZipInto(DictPut(d, headers[i], clean_cell_value(Strip(cells[i]))),
                 headers, cells, i + 1)

\* the cell text is stored as read, without _clean_cell_value
row_record_uncleaned(headers, cells) ==
    LET n == Min2(Len(headers), Len(cells))
    IN  [k \in {ROW_NAME} \cup {headers[i] : i \in 1..n} |->
            IF \E i \in 1..n : headers[i] = k
            THEN Strip(cells[MaxOf({i \in 1..n : headers[i] = k})])
            ELSE Strip(cells[1])]

\* lines 152-162 of _extract_table_data: the dict built for one row
row_record(headers, cells) ==
    ZipInto(ROW_NAME :> Strip(cells[1]), headers, cells, 1)

\* a row is kept when it has at least as many cells as there are headers
row_accepted_at_least(headers, cells) == Len(cells) >= Len(headers)

\* len(cells) != len(headers) -> continue
row_accepted(headers, cells) == Len(cells) = Len(headers)

RECURSIVE RowLoop(_, _, _, _)
RowLoop(rows, headers, i, data) ==
    IF i > Len(rows) THEN data
    ELSE IF rows[i] = <<>> THEN RowLoop(rows, headers, i + 1, data)
    ELSE IF ~row_accepted(headers, rows[i])
         THEN RowLoop(rows, headers, i + 1, data)
    ELSE RowLoop(rows, headers, i + 1,
                 Append(data, row_record(headers, rows[i])))

\* RobustScreenerScraper._extract_table_data
extract_table_data(table, headers) ==
    IF ~table.tbody.present THEN Raised
    ELSE Returned(RowLoop(table.tbody.rows, headers, 1, <<>>))

\* RobustScreenerScraper._clean_and_validate_data
clean_and_validate_data(data) == SelectSeq(data, LAMBDA item : DictLen(item) > 1)

(***************************************************************************)
(* A page: for each section id, whether the <section> is found, whether    *)
(* it holds a data table, and the table.  An empty text is falsy.          *)
(***************************************************************************)
SectionIds == <<"profit-loss", "balance-sheet", "cash-flow", "quarters">>
SectionKeys == <<"profit_loss", "balance_sheet", "cash_flow", "quarterly_results">>
SectionIdSet == {SectionIds[i] : i \in 1..Len(SectionIds)}

AnyTable == [thead |-> NoThead, tbody |-> NoTbody]
SecAbsent == [found |-> FALSE, has_table |-> FALSE, table |-> AnyTable]
SecNoTable == [found |-> TRUE, has_table |-> FALSE, table |-> AnyTable]
SecWith(t) == [found |-> TRUE, has_table |-> TRUE, table |-> t]

EmptyHtml == [empty |-> TRUE, sections |-> [s \in SectionIdSet |-> SecAbsent]]
Html(sections) == [empty |-> FALSE, sections |-> sections]
PageWith(id, sec) ==
    Html([s \in SectionIdSet |-> IF s = id THEN sec ELSE SecAbsent])

\* RobustScreenerScraper.extract_financial_data
extract_financial_data(html_content, section_id) ==
    IF html_content.empty THEN <<>>
    ELSE LET section == html_content.sections[section_id]
         IN  IF ~section.found THEN <<>>
             ELSE IF ~section.has_table THEN <<>>
             ELSE LET headers == extract_headers(section.table)
                  IN  IF headers.raised THEN <<>>
                      ELSE LET data == extract_table_data(section.table,
                                                          headers.value)
                           IN  IF data.raised THEN <<>>
                               ELSE clean_and_validate_data(data.value)

RECURSIVE ZipPlain(_, _, _, _)
\* for header, cell in zip(headers[1:], cells[1:]): row_data[header] = text
ZipPlain(d, headers, cells, i) ==
    IF i > Min2(Len(headers), Len(cells)) THEN d
    ELSE ZipPlain(DictPut(d, headers[i], Strip(cells[i])), headers, cells, i + 1)

RECURSIVE PlainRowLoop(_, _, _, _)
\* the row loop of Screener.extract_data; headers[0] and cells[0] raise
\* IndexError on an empty list
PlainRowLoop(rows, headers, i, data) ==
    IF i > Len(rows) THEN Returned(data)
    ELSE IF headers = <<>> \/ rows[i] = <<>> THEN Raised
    ELSE PlainRowLoop(rows, headers, i + 1,
             Append(data, ZipPlain(headers[1] :> Strip(rows[i][1]),
                                   headers, rows[i], 2)))

\* Screener.extract_data
Screener_extract_data(html_content, section_id) ==
    IF html_content.empty THEN Returned(EmptyDict)
    ELSE LET section == html_content.sections[section_id]
         IN  IF ~section.found THEN Returned(EmptyDict)
             ELSE IF ~section.has_table THEN Returned(EmptyDict)
             ELSE IF ~section.table.thead.present THEN Raised
             ELSE IF ~section.table.tbody.present THEN Raised
             ELSE PlainRowLoop(section.table.tbody.rows,
                               CellTexts(section.table.thead.cells), 1, <<>>)

(***************************************************************************)
(* The HTTP layer and the upstream site.                                   *)
(***************************************************************************)
\* the value of HEADERS['User-Agent'] as the modules define it
DefaultUA == "Chrome/103 X11"
\* self.user_agents, in the order _init_ lists them
user_agents == <<"Chrome/91 Windows", "Chrome/90 Macintosh", "Chrome/92 Linux">>
\* what requests.get sends when it is given no headers
LibraryUA == "python-requests"
\* fetch_page's default retry_count
DefaultRetryCount == 3

Reqs == 1..NReq

\* one item of the upstream search's JSON list
Candidates == [has_id : BOOLEAN, has_code : BOOLEAN]
SearchErrors == {"network_error", "http_error", "json_error", "not_a_list"}
SearchAnswers ==
    [kind : SearchErrors, items : {<<>>}] \cup
    [kind : {"list"}, items : SeqsUpTo(Candidates, MaxCand)]
\* the company page: the first `failures` attempts fail, the next is
\* answered 200 with `body`
PageBodies == {"empty", "doc", "bad_doc"}
PageAnswers == [failures : 0..MaxFailures, body : PageBodies]
Worlds == [search : SearchAnswers, page : PageAnswers]
NoWorld == [search |-> [kind |-> "list", items |-> <<>>],
            page |-> [failures |-> 0, body |-> "empty"]]

VARIABLES x, y, z, npc,
          table, hdr_arg, hdr_out, rows_out, sec_out, called,
          page, impl, results, aborted, ppc,
          HEADERS, world, req, scraper, pc, loc, resp, calls

normVars == <<x, y, z, npc>>
tableVars == <<table, hdr_arg, hdr_out, rows_out, sec_out, called>>
pageVars == <<page, impl, results, aborted, ppc>>
httpVars == <<HEADERS, world, req, scraper, pc, loc, resp, calls>>
vars == <<x, y, z, npc, table, hdr_arg, hdr_out, rows_out, sec_out, called,
          page, impl, results, aborted, ppc,
          HEADERS, world, req, scraper, pc, loc, resp, calls>>

NormIdle == x = <<>> /\ y = <<>> /\ z = <<>> /\ npc = "idle"
TableIdle ==
    /\ table = AnyTable /\ hdr_arg = <<>> /\ hdr_out = Raised
    /\ rows_out = Raised /\ sec_out = <<>> /\ called = {}
PageIdle ==
    /\ page = EmptyHtml /\ impl = "none" /\ results = EmptyDict
    /\ aborted = FALSE /\ ppc = 0
HttpIdle ==
    /\ HEADERS = DefaultUA /\ world = NoWorld
    /\ req = <<>> /\ scraper = <<>> /\ pc = <<>> /\ loc = <<>>
    /\ resp = <<>> /\ calls = <<>>

(***************************************************************************)
(* The cell normalizer applied, and applied again to its own output.       *)
(***************************************************************************)
InitNorm ==
    /\ x \in Texts /\ y = <<>> /\ z = <<>> /\ npc = "start"
    /\ TableIdle /\ PageIdle /\ HttpIdle

Normalize ==
    /\ npc = "start"
    /\ y' = clean_cell_value(x)
    /\ npc' = "once"
    /\ UNCHANGED <<x, z>>
    /\ UNCHANGED <<tableVars, pageVars, httpVars>>

NormalizeAgain ==
    /\ npc = "once"
    /\ z' = clean_cell_value(y)
    /\ npc' = "twice"
    /\ UNCHANGED <<x, y>>
    /\ UNCHANGED <<tableVars, pageVars, httpVars>>

NextNorm == Normalize \/ NormalizeAgain

SpecNorm == InitNorm /\ [][NextNorm]_vars

\* C7: the cell normalizer is idempotent: normalizing an already normalized
\* text gives the same text back.
C7_NormalizeIdempotent == npc = "twice" => z = y

\* a text with a comma, a symbol and whitespace was normalized twice
C7_Witness ==
    /\ npc = "twice"
    /\ \E i \in 1..Len(x) : x[i] = ","
    /\ \E i \in 1..Len(x) : x[i] \in {"N", "/", " "}
    /\ y # <<>>

(***************************************************************************)
(* The row extractor called directly on a table body with a header list    *)
(* of the caller's choosing.                                               *)
(***************************************************************************)
InitRows ==
    /\ table \in [thead : {NoThead}, tbody : Tbodies]
    /\ hdr_arg \in HeaderSeqs
    /\ hdr_out = Raised /\ rows_out = Raised /\ sec_out = <<>> /\ called = {}
    /\ NormIdle /\ PageIdle /\ HttpIdle

CallExtractTableData ==
    /\ "rows" \notin called
    /\ rows_out' = extract_table_data(table, hdr_arg)
    /\ called' = called \cup {"rows"}
    /\ UNCHANGED <<table, hdr_arg, hdr_out, sec_out>>
    /\ UNCHANGED <<normVars, pageVars, httpVars>>

\* data -> _clean_and_validate_data(data), as extract_financial_data does next
CallCleanAndValidate ==
    /\ "rows" \in called /\ "clean" \notin called
    /\ ~rows_out.raised
    /\ sec_out' = clean_and_validate_data(rows_out.value)
    /\ called' = called \cup {"clean"}
    /\ UNCHANGED <<table, hdr_arg, hdr_out, rows_out>>
    /\ UNCHANGED <<normVars, pageVars, httpVars>>

NextRows == CallExtractTableData \/ CallCleanAndValidate

SpecRows == InitRows /\ [][NextRows]_vars

\* the body rows' indices, in order, that have a cell and as many cells as H
AcceptedIdx(rows, H) ==
    SelectSeq([i \in 1..Len(rows) |-> i],
              LAMBDA i : Len(rows[i]) >= 1 /\ Len(rows[i]) = Len(H))

LastPos(H, k) == MaxOf({j \in 1..Len(H) : H[j] = k})

\* C5: the row extractor's output is exactly the order-preserving subsequence
\* of the body rows that have at least one cell and exactly len(H) cells: one
\* Record per such row, in the rows' order, keyed by row_name and all of H's
\* labels; rows of any other width are absent, and an empty H extracts nothing.
C5_RowsAreTheMatchingSubsequence ==
    "rows" \in called =>
        /\ rows_out.raised <=> ~table.tbody.present
        /\ ~rows_out.raised =>
            LET rows == table.tbody.rows
                acc == AcceptedIdx(rows, hdr_arg)
                data == rows_out.value
            IN  /\ Len(data) = Len(acc)
                /\ \A k \in 1..Len(acc) :
                     /\ data[k] = row_record(hdr_arg, rows[acc[k]])
                     /\ DOMAIN data[k] =
                          {ROW_NAME} \cup {hdr_arg[i] : i \in 1..Len(hdr_arg)}
                /\ hdr_arg = <<>> => data = <<>>

\* a body holding a row of the headers' width and a row of another width was
\* extracted against two headers, and only the matching row was emitted
C5_Witness ==
    /\ "rows" \in called /\ ~rows_out.raised
    /\ Len(hdr_arg) = 2
    /\ Len(table.tbody.rows) >= 2
    /\ \E i \in 1..Len(table.tbody.rows) : Len(table.tbody.rows[i]) = 1
    /\ \E i \in 1..Len(table.tbody.rows) : Len(table.tbody.rows[i]) = 2
    /\ Len(rows_out.value) = 1

\* C9 as stated: every accepted row's Record holds row_name = the trimmed
\* first cell and, for EVERY position i of H, the normalized i-th cell under
\* label H[i].
C9_EveryPositionHeld ==
    ("rows" \in called /\ ~rows_out.raised) =>
        LET rows == table.tbody.rows
            acc == AcceptedIdx(rows, hdr_arg)
            data == rows_out.value
        IN  \A k \in 1..Len(data) :
              /\ data[k][ROW_NAME] = Strip(rows[acc[k]][1])
              /\ \A i \in 1..Len(hdr_arg) :
                   data[k][hdr_arg[i]] = clean_cell_value(Strip(rows[acc[k]][i]))

\* C9 amended: under label H[i] the Record holds the normalized cell of the
\* LAST position carrying that label (a Record is a mapping, so a repeated
\* label keeps one value), and under row_name the trimmed first cell unless
\* H has the label "row_name", whose last cell (normalized) then replaces it.
C9_LastPositionWins ==
    ("rows" \in called /\ ~rows_out.raised) =>
        LET rows == table.tbody.rows
            acc == AcceptedIdx(rows, hdr_arg)
            data == rows_out.value
            labels == {hdr_arg[i] : i \in 1..Len(hdr_arg)}
        IN  \A k \in 1..Len(data) :
              /\ \A i \in 1..Len(hdr_arg) :
                   data[k][hdr_arg[i]] =
                     clean_cell_value(
                        Strip(rows[acc[k]][LastPos(hdr_arg, hdr_arg[i])]))
              /\ ROW_NAME \notin labels =>
                   data[k][ROW_NAME] = Strip(rows[acc[k]][1])

\* a row with two different cells was accepted against two distinct labels,
\* and its first cell's text is changed by normalization
C9_Witness ==
    /\ "rows" \in called /\ ~rows_out.raised
    /\ Len(hdr_arg) = 2 /\ hdr_arg[1] # hdr_arg[2]
    /\ ROW_NAME \notin {hdr_arg[1], hdr_arg[2]}
    /\ Len(rows_out.value) >= 1
    /\ \E i \in 1..Len(table.tbody.rows) :
         /\ Len(table.tbody.rows[i]) = 2
         /\ table.tbody.rows[i][1] # table.tbody.rows[i][2]
         /\ clean_cell_value(table.tbody.rows[i][1]) # Strip(table.tbody.rows[i][1])

(***************************************************************************)
(* One table run through the header resolver and through the whole         *)
(* section extractor (the table being the profit-loss section's).          *)
(***************************************************************************)
InitTable ==
    /\ table \in Tables
    /\ hdr_arg = <<>>
    /\ hdr_out = Raised /\ rows_out = Raised /\ sec_out = <<>> /\ called = {}
    /\ NormIdle /\ PageIdle /\ HttpIdle

CallExtractHeaders ==
    /\ "headers" \notin called
    /\ hdr_out' = extract_headers(table)
    /\ called' = called \cup {"headers"}
    /\ UNCHANGED <<table, hdr_arg, rows_out, sec_out>>
    /\ UNCHANGED <<normVars, pageVars, httpVars>>

CallExtractFinancialData ==
    /\ "section" \notin called
    /\ sec_out' = extract_financial_data(PageWith("profit-loss", SecWith(table)),
                                         "profit-loss")
    /\ called' = called \cup {"section"}
    /\ UNCHANGED <<table, hdr_arg, hdr_out, rows_out>>
    /\ UNCHANGED <<normVars, pageVars, httpVars>>

NextTable == CallExtractHeaders \/ CallExtractFinancialData

SpecTable == InitTable /\ [][NextTable]_vars

\* the header fallback's case: a declared header row with fewer than two
\* labels and a first body row
FallbackCase ==
    /\ table.thead.present /\ Len(table.thead.cells) < 2
    /\ table.tbody.present /\ table.tbody.rows # <<>>

\* C2: in the fallback case the resolved headers are the trimmed texts of the
\* first body row's cells, and that row is consumed: the section's Records
\* come from the second and later body rows only.
C2_FallbackConsumesFirstRow ==
    (FallbackCase /\ called = {"headers", "section"}) =>
        /\ ~hdr_out.raised
        /\ hdr_out.value = CellTexts(table.tbody.rows[1])
        /\ Len(sec_out) <=
             Cardinality({i \in 2..Len(table.tbody.rows) :
                            /\ Len(table.tbody.rows[i]) >= 1
                            /\ Len(table.tbody.rows[i]) = Len(hdr_out.value)})

\* the first half of C2 alone: the fallback returns the first row's texts
FallbackHeadersAreFirstRow ==
    (FallbackCase /\ "headers" \in called) =>
        /\ ~hdr_out.raised
        /\ hdr_out.value = CellTexts(table.tbody.rows[1])

(***************************************************************************)
(* Document assembly: the four sections of one fetched page, extracted in  *)
(* the order of the dict literal, by RobustScreenerScraper                 *)
(* .scrape_financial_sections (app.py) or Company.fetch_all_data           *)
(* (second.py).  An exception leaving Screener.extract_data leaves         *)
(* fetch_all_data too, and the route answers 500.                          *)
(***************************************************************************)
GoodTable ==
    [thead |-> Thead(<<<<>>, <<"M", " ">>>>),
     tbody |-> Tbody(<<<<<<" ", "N">>, <<"1", ",", "2">>>>>>)]
SectionSamples ==
    { SecAbsent,
      SecNoTable,
      SecWith([thead |-> NoThead, tbody |-> GoodTable.tbody]),
      SecWith([thead |-> GoodTable.thead, tbody |-> NoTbody]),
      SecWith([thead |-> GoodTable.thead, tbody |-> Tbody(<<>>)]),
      SecWith([thead |-> GoodTable.thead,
               tbody |-> Tbody(<<<<>>, GoodTable.tbody.rows[1]>>)]),
      SecWith(GoodTable) }

\* the section is found, holds a table, and the table has both tags
WellFormed(sec) ==
    /\ sec.found /\ sec.has_table
    /\ sec.table.thead.present /\ sec.table.tbody.present

InitPage ==
    /\ \E secs \in [SectionIdSet -> SectionSamples] : page = Html(secs)
    /\ impl \in {"app", "second"}
    /\ results = EmptyDict /\ aborted = FALSE /\ ppc = 1
    /\ NormIdle /\ TableIdle /\ HttpIdle

\* 'profit_loss': self.extract_financial_data(html_content, 'profit-loss'), ...
ExtractSectionRobust ==
    /\ impl = "app" /\ ppc \in 1..Len(SectionIds)
    /\ results' = DictPut(results, SectionKeys[ppc],
                          extract_financial_data(page, SectionIds[ppc]))
    /\ ppc' = ppc + 1
    /\ UNCHANGED <<page, impl, aborted>>
    /\ UNCHANGED <<normVars, tableVars, httpVars>>

\* 'profit_loss': screener.extract_data(html_content, 'profit-loss'), ...
ExtractSectionPlain ==
    /\ impl = "second" /\ ppc \in 1..Len(SectionIds)
    /\ LET r == Screener_extract_data(page, SectionIds[ppc])
       IN  IF r.raised
           THEN /\ aborted' = TRUE
                /\ ppc' = Len(SectionIds) + 1
                /\ UNCHANGED results
           ELSE /\ results' = DictPut(results, SectionKeys[ppc], r.value)
                /\ ppc' = ppc + 1
                /\ UNCHANGED aborted
    /\ UNCHANGED <<page, impl>>
    /\ UNCHANGED <<normVars, tableVars, httpVars>>

NextPage == ExtractSectionRobust \/ ExtractSectionPlain

SpecPage == InitPage /\ [][NextPage]_vars

AssemblyEnded == ppc = Len(SectionIds) + 1

\* what extracting section i alone gives: its records on a page that holds
\* no other section
SectionAlone(i) ==
    LET alone == PageWith(SectionIds[i], page.sections[SectionIds[i]])
    IN  IF impl = "app" THEN extract_financial_data(alone, SectionIds[i])
        ELSE Screener_extract_data(alone, SectionIds[i]).value

\* C4: section-level failures never escape and sections are independent: the
\* assembly never ends by an exception, a section whose region, table, header
\* row or body is missing gives an empty result, and every section's result
\* is what extracting that section alone gives.
C4_SectionFailuresNeverEscape ==
    AssemblyEnded =>
        /\ ~aborted
        /\ \A i \in 1..Len(SectionIds) :
             /\ SectionKeys[i] \in DOMAIN results
             /\ results[SectionKeys[i]] = SectionAlone(i)
             /\ ~WellFormed(page.sections[SectionIds[i]]) =>
                  Len(results[SectionKeys[i]]) = 0

\* the same statement for RobustScreenerScraper alone, whose
\* extract_financial_data catches every exception
RobustSectionsIndependent ==
    (AssemblyEnded /\ impl = "app") =>
        /\ ~aborted
        /\ \A i \in 1..Len(SectionIds) :
             /\ SectionKeys[i] \in DOMAIN results
             /\ results[SectionKeys[i]] = SectionAlone(i)
             /\ ~WellFormed(page.sections[SectionIds[i]]) =>
                  Len(results[SectionKeys[i]]) = 0
             /\ page.sections[SectionIds[i]] = SecWith(GoodTable) =>
                  Len(results[SectionKeys[i]]) = 1

(***************************************************************************)
(* Threads.  Each slot is served by its own thread: a Flask route of       *)
(* app.py or second.py, or a direct user of RobustScreenerScraper, who     *)
(* constructs the object, may call its method _init_ (no code of the       *)
(* repository does), and calls search_companies or fetch_page.  HEADERS is *)
(* the module-level dict of app.py; world is what the upstream site        *)
(* answers.                                                                *)
(***************************************************************************)
Bodies == {"no_json", "missing", "empty", "name"}
Queries == {"missing", "empty", "text"}
\* the argument of _init_: None (the default) or a non-empty dict of the
\* caller's
InitArgs == {"None", "own"}
\* User-Agent of the caller's own dict
CallerUA == "caller"

NoReq == [kind |-> "none", input |-> "none"]
NoLoc == [search_outcome |-> "none", search_results |-> <<>>,
          company_code |-> "none", attempt |-> 0, retry |-> 0]
NoResp == [status |-> 0, body |-> "none"]

\* RobustScreenerScraper._init_(headers): self.headers = headers or HEADERS
\* (the same dict object as the module's when headers is None), and
\* self.user_agents = the rotation list
RobustScreenerScraper_init_(headers) ==
    [has_attrs |-> TRUE, shared |-> (headers = "None"),
     own_ua |-> IF headers = "None" THEN "unset" ELSE CallerUA]

\* the object as a constructor spelled __init__ would leave it
ScraperAfterInit == RobustScreenerScraper_init_("None")

\* RobustScreenerScraper(): the class defines _init_ and no __init__, so the
\* object has neither self.headers nor self.user_agents
FreshScraper == [has_attrs |-> FALSE, shared |-> FALSE, own_ua |-> "unset"]

\* self.headers['User-Agent'] as read now
HeadersUA(sc, H) == IF sc.shared THEN H ELSE sc.own_ua

\* only an absent value (None) is rejected, not ''
not_given_none_only(v) == v = "missing"

\* `if not query` / `if not stock_name`: None and '' are both falsy
not_given(v) == v \in {"missing", "empty"}

\* [company for company in data if company.get('id') is not None]
WithId(items) == SelectSeq(items, LAMBDA c : c.has_id)

\* the try block of RobustScreenerScraper.search_companies: reading
\* self.headers raises AttributeError on an object without the attribute,
\* before anything is sent
search_companies(sc, answer) ==
    IF ~sc.has_attrs
    THEN [outcome |-> "internal_error", results |-> <<>>, sent |-> FALSE]
    ELSE IF answer.kind = "list"
    THEN [outcome |-> "ok", results |-> WithId(answer.items), sent |-> TRUE]
    ELSE IF answer.kind = "not_a_list"
    THEN [outcome |-> "internal_error", results |-> <<>>, sent |-> TRUE]
    ELSE [outcome |-> answer.kind, results |-> <<>>, sent |-> TRUE]

\* Screener.search_companies
Screener_search_companies(answer) ==
    IF answer.kind = "list"
    THEN [outcome |-> "ok", results |-> WithId(answer.items), sent |-> TRUE]
    ELSE IF answer.kind = "not_a_list"
    THEN [outcome |-> "ok", results |-> <<>>, sent |-> TRUE]
    ELSE [outcome |-> answer.kind, results |-> <<>>, sent |-> TRUE]

Call(what, ua, attempt) == [what |-> what, ua |-> ua, attempt |-> attempt]

\* what the caller of fetch_page does with its return value `html`:
\* scrape_financial_sections lines 202-220 and get_stock_data lines 250-253
AfterFetch(rq, html) ==
    IF rq.kind = "direct"
    THEN [status |-> 0, body |-> html]
    ELSE [status |-> 200,
          body |-> IF html \in {"None", "empty"} THEN "error_dict"
                   ELSE "document"]

\* an exception leaving fetch_page: it reaches the direct caller, or
\* get_stock_data's except clause through scrape_financial_sections
AfterRaise(rq) ==
    IF rq.kind = "direct" THEN [status |-> 0, body |-> "raised"]
    ELSE [status |-> 500, body |-> "error"]

Init ==
    /\ HEADERS = DefaultUA
    /\ world \in Worlds
    /\ req = [r \in Reqs |-> NoReq]
    /\ scraper = [r \in Reqs |-> FreshScraper]
    /\ pc = [r \in Reqs |-> "idle"]
    /\ loc = [r \in Reqs |-> NoLoc]
    /\ resp = [r \in Reqs |-> NoResp]
    /\ calls = [r \in Reqs |-> <<>>]
    /\ NormIdle /\ TableIdle /\ PageIdle

Others == <<normVars, tableVars, pageVars>>

\* get_stock_data of app.py up to the call of screener.search_companies
get_stock_data(r) ==
    /\ pc[r] = "idle"
    /\ \E body \in Bodies :
        /\ req' = [req EXCEPT ![r] = [kind |-> "stock_data", input |-> body]]
        /\ IF body = "no_json"
           THEN /\ resp' = [resp EXCEPT ![r] = [status |-> 500, body |-> "error"]]
                /\ pc' = [pc EXCEPT ![r] = "done"]
           ELSE IF not_given(body)
           THEN /\ resp' = [resp EXCEPT ![r] = [status |-> 400, body |-> "error"]]
                /\ pc' = [pc EXCEPT ![r] = "done"]
           ELSE /\ pc' = [pc EXCEPT ![r] = "search"]
                /\ UNCHANGED resp
    /\ scraper' = [scraper EXCEPT ![r] = FreshScraper]
    /\ UNCHANGED <<HEADERS, world, loc, calls, Others>>

\* the route search_companies of app.py up to the call of
\* screener.search_companies
search_companies_route(r) ==
    /\ pc[r] = "idle"
    /\ \E query \in Queries :
        /\ req' = [req EXCEPT ![r] = [kind |-> "search_route", input |-> query]]
        /\ IF not_given(query)
           THEN /\ resp' = [resp EXCEPT ![r] = [status |-> 400, body |-> "error"]]
                /\ pc' = [pc EXCEPT ![r] = "done"]
           ELSE /\ pc' = [pc EXCEPT ![r] = "search"]
                /\ UNCHANGED resp
    /\ scraper' = [scraper EXCEPT ![r] = FreshScraper]
    /\ UNCHANGED <<HEADERS, world, loc, calls, Others>>

\* a direct user's s = RobustScreenerScraper()
construct(r) ==
    /\ pc[r] = "idle"
    /\ req' = [req EXCEPT ![r] = [kind |-> "direct", input |-> "none"]]
    /\ scraper' = [scraper EXCEPT ![r] = FreshScraper]
    /\ pc' = [pc EXCEPT ![r] = "constructed"]
    /\ UNCHANGED <<HEADERS, world, loc, resp, calls, Others>>

\* a direct user's s._init_() or s._init_(own_headers)
call_init_(r) ==
    /\ pc[r] = "constructed"
    /\ ~scraper[r].has_attrs
    /\ \E headers \in InitArgs :
        scraper' = [scraper EXCEPT ![r] = RobustScreenerScraper_init_(headers)]
    /\ UNCHANGED <<HEADERS, world, req, pc, loc, resp, calls, Others>>

\* a direct user's s.search_companies(query)
call_search_companies(r) ==
    /\ pc[r] = "constructed"
    /\ req' = [req EXCEPT ![r].input = "search"]
    /\ pc' = [pc EXCEPT ![r] = "search"]
    /\ UNCHANGED <<HEADERS, world, scraper, loc, resp, calls, Others>>

\* a direct user's s.fetch_page(url, retry_count), up to the first pass of
\* the loop; range(0) is empty and the method then returns None
fetch_page(r) ==
    /\ pc[r] = "constructed"
    /\ \E retry_count \in 0..MaxRetryArg :
        /\ req' = [req EXCEPT ![r].input = "fetch"]
        /\ loc' = [loc EXCEPT ![r].retry = retry_count]
        /\ IF retry_count = 0
           THEN /\ resp' = [resp EXCEPT ![r] = AfterFetch(req[r], "None")]
                /\ pc' = [pc EXCEPT ![r] = "done"]
           ELSE /\ pc' = [pc EXCEPT ![r] = "rotate"]
                /\ UNCHANGED resp
    /\ UNCHANGED <<HEADERS, world, scraper, calls, Others>>

\* RobustScreenerScraper.search_companies, and what its caller does with
\* the list: get_stock_data lines 240-248, the route's line 272
SearchCompanies(r) ==
    /\ pc[r] = "search"
    /\ LET sc == scraper[r]
           res == search_companies(sc, world.search)
       IN  /\ calls' = [calls EXCEPT ![r] =
                 IF res.sent
                 THEN Append(@, Call("search", HeadersUA(sc, HEADERS), 0))
                 ELSE @]
           /\ IF req[r].kind = "stock_data" /\ res.results # <<>>
              THEN /\ loc' = [loc EXCEPT ![r] =
                        [search_outcome |-> res.outcome,
                         search_results |-> res.results,
                         company_code |-> IF res.results[1].has_code
                                          THEN "code" ELSE "stock_name",
                         attempt |-> 0, retry |-> DefaultRetryCount]]
                   /\ pc' = [pc EXCEPT ![r] = "rotate"]
                   /\ UNCHANGED resp
              ELSE /\ loc' = [loc EXCEPT ![r].search_outcome = res.outcome,
                                         ![r].search_results = res.results]
                   /\ pc' = [pc EXCEPT ![r] = "done"]
                   /\ resp' = [resp EXCEPT ![r] =
                        IF req[r].kind = "stock_data"
                        THEN [status |-> 404, body |-> "error"]
                        ELSE IF req[r].kind = "search_route"
                        THEN [status |-> 200, body |-> "list"]
                        ELSE [status |-> 0, body |-> "list"]]
    /\ UNCHANGED <<HEADERS, world, req, scraper, Others>>

\* fetch_page line 78: self.headers['User-Agent'] = self.user_agents[...].
\* On an object without the attributes it raises AttributeError, which the
\* except clause (requests.RequestException, requests.Timeout) does not
\* catch.
FetchRotate(r) ==
    /\ pc[r] = "rotate"
    /\ LET sc == scraper[r]
           ua == user_agents[(loc[r].attempt % Len(user_agents)) + 1]
       IN  IF ~sc.has_attrs
           THEN /\ resp' = [resp EXCEPT ![r] = AfterRaise(req[r])]
                /\ pc' = [pc EXCEPT ![r] = "done"]
                /\ UNCHANGED <<HEADERS, scraper>>
           ELSE /\ IF sc.shared
                   THEN HEADERS' = ua /\ UNCHANGED scraper
                   ELSE /\ scraper' = [scraper EXCEPT ![r].own_ua = ua]
                        /\ UNCHANGED HEADERS
                /\ pc' = [pc EXCEPT ![r] = "send"]
                /\ UNCHANGED resp
    /\ UNCHANGED <<world, req, loc, calls, Others>>

\* fetch_page lines 80-87: requests.get reads the headers dict as it is now,
\* and what follows the answer
FetchSend(r) ==
    /\ pc[r] = "send"
    /\ LET a == loc[r].attempt
       IN  /\ calls' = [calls EXCEPT ![r] =
                 Append(@, Call("page", HeadersUA(scraper[r], HEADERS), a))]
           /\ IF a < world.page.failures
              THEN IF a = loc[r].retry - 1
                   THEN /\ resp' = [resp EXCEPT ![r] = AfterFetch(req[r], "None")]
                        /\ pc' = [pc EXCEPT ![r] = "done"]
                        /\ UNCHANGED loc
                   ELSE /\ loc' = [loc EXCEPT ![r].attempt = a + 1]
                        /\ pc' = [pc EXCEPT ![r] = "rotate"]
                        /\ UNCHANGED resp
              ELSE /\ resp' = [resp EXCEPT ![r] =
                                  AfterFetch(req[r], world.page.body)]
                   /\ pc' = [pc EXCEPT ![r] = "done"]
                   /\ UNCHANGED loc
    /\ UNCHANGED <<HEADERS, world, req, scraper, Others>>

\* get_stock_data of second.py, with Company.fetch_all_data and
\* Screener.fetch_company_page
get_stock_data_second(r) ==
    /\ pc[r] = "idle"
    /\ \E body \in Bodies :
        /\ req' = [req EXCEPT ![r] = [kind |-> "stock_data_2", input |-> body]]
        /\ IF body = "no_json"
           THEN /\ resp' = [resp EXCEPT ![r] = [status |-> 500, body |-> "error"]]
                /\ UNCHANGED calls
           ELSE IF not_given(body)
           THEN /\ resp' = [resp EXCEPT ![r] = [status |-> 400, body |-> "error"]]
                /\ UNCHANGED calls
           ELSE /\ calls' = [calls EXCEPT ![r] =
                                Append(@, Call("page", LibraryUA, 0))]
                /\ resp' = [resp EXCEPT ![r] =
                     IF world.page.failures = 0 /\ world.page.body = "doc"
                     THEN [status |-> 200, body |-> "document"]
                     ELSE [status |-> 500, body |-> "error"]]
    /\ pc' = [pc EXCEPT ![r] = "done"]
    /\ UNCHANGED <<HEADERS, world, scraper, loc, Others>>

\* the route search_companies of second.py, with Screener.search_companies
search_companies_route_second(r) ==
    /\ pc[r] = "idle"
    /\ \E query \in Queries :
        /\ req' = [req EXCEPT ![r] = [kind |-> "search_route_2", input |-> query]]
        /\ IF not_given(query)
           THEN /\ resp' = [resp EXCEPT ![r] = [status |-> 400, body |-> "error"]]
                /\ UNCHANGED <<calls, loc>>
           ELSE LET res == Screener_search_companies(world.search)
                IN  /\ calls' = [calls EXCEPT ![r] =
                                    Append(@, Call("search", LibraryUA, 0))]
                    /\ loc' = [loc EXCEPT ![r].search_outcome = res.outcome,
                                          ![r].search_results = res.results]
                    /\ resp' = [resp EXCEPT ![r] = [status |-> 200, body |-> "list"]]
    /\ pc' = [pc EXCEPT ![r] = "done"]
    /\ UNCHANGED <<HEADERS, world, scraper, Others>>

Next ==
    \E r \in Reqs :
        \/ get_stock_data(r)
        \/ search_companies_route(r)
        \/ construct(r)
        \/ call_init_(r)
        \/ call_search_companies(r)
        \/ fetch_page(r)
        \/ SearchCompanies(r)
        \/ FetchRotate(r)
        \/ FetchSend(r)
        \/ get_stock_data_second(r)
        \/ search_companies_route_second(r)

Spec == Init /\ [][Next]_vars

(***************************************************************************)
(* The two Flask applications as deployed: only their routes are entered.  *)
(***************************************************************************)
NextRoutes ==
    \E r \in Reqs :
        \/ get_stock_data(r)
        \/ search_companies_route(r)
        \/ SearchCompanies(r)
        \/ get_stock_data_second(r)
        \/ search_companies_route_second(r)

SpecRoutes == Init /\ [][NextRoutes]_vars

IsRoute(r) ==
    req[r].kind \in {"stock_data", "search_route", "stock_data_2", "search_route_2"}
IsDirect(r) == req[r].kind = "direct"

\* no route ever reaches fetch_page: the scraper a route constructs has no
\* self.headers, so its search raises inside the try block and returns []
RoutesNeverFetch ==
    \A r \in Reqs : IsRoute(r) => pc[r] \notin {"rotate", "send"}

\* the routes by themselves never write HEADERS, and send the library's
\* identification only
RoutesShareNothing ==
    /\ HEADERS = DefaultUA
    /\ \A r \in Reqs : \A k \in 1..Len(calls[r]) : calls[r][k].ua = LibraryUA

IsSearchRoute(r) == req[r].kind \in {"search_route", "search_route_2"}
HasCandidate == world.search.kind = "list" /\ WithId(world.search.items) # <<>>

\* C6: a GET /api/search-companies whose query is missing or empty is
\* answered 400 with an error body, and that request makes no upstream call,
\* in no state before or after its response.
C6_EmptyQueryRejectedWithoutUpstreamCall ==
    \A r \in Reqs :
        (IsSearchRoute(r) /\ req[r].input \in {"missing", "empty"}) =>
            /\ calls[r] = <<>>
            /\ pc[r] = "done"
            /\ resp[r] = [status |-> 400, body |-> "error"]

\* an empty query was rejected while another search request reached upstream
C6_Witness ==
    \E r, o \in Reqs :
        /\ IsSearchRoute(r) /\ req[r].input = "empty"
        /\ resp[r].status = 400
        /\ IsSearchRoute(o) /\ req[o].input = "text"
        /\ calls[o] # <<>> /\ resp[o].status = 200

\* C1: POST /api/stock-data (app.py) with a stockName for which the upstream
\* search has a candidate, while the company page fails on every attempt of
\* the retry budget, is answered 500.
C1_FetchFailureIs500 ==
    \A r \in Reqs :
        ( /\ req[r].kind = "stock_data" /\ req[r].input = "name"
          /\ HasCandidate
          /\ world.page.failures >= DefaultRetryCount
          /\ pc[r] = "done" )
        => resp[r].status = 500

\* C3: POST /api/stock-data (app.py) answers 404 only when the search was
\* carried out and yielded no candidate; a search that failed is never
\* reported as not-found.
C3_NotFoundOnlyWhenSearchEmpty ==
    \A r \in Reqs :
        ( /\ req[r].kind = "stock_data" /\ req[r].input = "name"
          /\ pc[r] = "done" /\ resp[r].status = 404 )
        => /\ loc[r].search_outcome = "ok"
           /\ loc[r].search_results = <<>>

\* the identification an upstream call of thread r carries when r runs
\* alone: the library's for second.py; for app.py the rotation's entry for
\* the attempt on a page fetch, and on a search the User-Agent the scraper's
\* dict was given
AloneUA(r, c) ==
    IF req[r].kind \in {"stock_data_2", "search_route_2"} THEN LibraryUA
    ELSE IF c.what = "page"
    THEN user_agents[(c.attempt % Len(user_agents)) + 1]
    ELSE IF scraper[r].shared THEN DefaultUA ELSE CallerUA

\* a thread that wrote HEADERS: a direct user whose scraper was bound to the
\* module's dict by _init_() and whose fetch_page has passed line 78
HasRotatedShared(o) ==
    /\ IsDirect(o) /\ scraper[o].shared /\ req[o].input = "fetch"
    /\ pc[o] = "send" \/ loc[o].attempt > 0 \/ (pc[o] = "done" /\ loc[o].retry > 0)

RequestsUnaffectedByDirectUse ==
    /\ HEADERS # DefaultUA => \E o \in Reqs : HasRotatedShared(o)
    /\ \A r \in Reqs : IsRoute(r) =>
         /\ ~scraper[r].shared
         /\ \A k \in 1..Len(calls[r]) : calls[r][k].ua = AloneUA(r, calls[r][k])
    /\ \A r, o \in Reqs :
         ( /\ IsRoute(r) /\ req[r] = req[o]
           /\ pc[r] = "done" /\ pc[o] = "done" )
         => resp[r] = resp[o] /\ calls[r] = calls[o]

\* the statement of C8 for every thread, direct users included: it does not
\* hold under Spec.  Two threads that each ran _init_() share HEADERS, and
\* between one's line 78 and its requests.get the other can write it, so an
\* attempt goes out with the header of another thread's attempt.
EveryCallCarriesOwnUA ==
    \A r \in Reqs : \A k \in 1..Len(calls[r]) :
        calls[r][k].ua = AloneUA(r, calls[r][k])

IsFetch(r) == IsDirect(r) /\ req[r].input = "fetch"

\* what C10 says of one finished fetch_page call
FetchAsDocumented(r) ==
    LET n == Len(calls[r])
        retry == loc[r].retry
        f == world.page.failures
    IN  /\ resp[r].body # "raised"
        /\ n <= retry
        /\ \A k \in 1..n :
             /\ calls[r][k].attempt = k - 1
             /\ calls[r][k].ua = user_agents[((k - 1) % Len(user_agents)) + 1]
        /\ n = (IF f < retry THEN f + 1 ELSE retry)
        /\ resp[r].body = (IF f < retry THEN world.page.body ELSE "None")

\* C10: fetch_page on a freshly constructed scraper makes at most
\* retry_count attempts, attempt k with the k-th identification header of the
\* rotation, returns the first successful attempt's text, returns None when
\* all attempts failed, and never raises.
C10_FetchPageBoundedNeverRaises ==
    \A r \in Reqs :
        (IsFetch(r) /\ ~scraper[r].has_attrs /\ pc[r] = "done")
        => FetchAsDocumented(r)

\* the same once the caller has run _init_ with a dict of its own
InitialisedFetchAsDocumented ==
    \A r \in Reqs :
        ( /\ IsFetch(r) /\ scraper[r].has_attrs /\ ~scraper[r].shared
          /\ pc[r] = "done" )
        => FetchAsDocumented(r)
=============================================================================
